---- MODULE Spec2Model ----
(***************************************************************************)
(* A model of fits2hdf/io/fitsio.py: the FITS format-code lookup, the      *)
(* header translation in both directions, the import loop read_fits and    *)
(* the export loop create_fits.                                            *)
(*                                                                         *)
(* Python strings that the code slices, strips, compares or formats (card  *)
(* names, unit names, format codes) are sequences of one-character         *)
(* strings, so that key[:5], endswith, strip and "%i%s" are computed.      *)
(* Card values, comment texts and data payloads are opaque tokens.         *)
(***************************************************************************)
EXTENDS Integers, Sequences, FiniteSets, TLC

VARIABLES
    pc,         \* position of the call under way
    numpy_dtype, numpy_shape, fits_fmt,      \* fits_format_code_lookup: inputs, result
    cards, parsed,                           \* parse_fits_header: input cards, result
    idiobj, hduobj,                          \* write_headers: source unit, target unit
    ff, ffOpen, hdul_idi, ii, idx, calls,    \* read_fits
    hdul, hdulist, eidx, provenance         \* create_fits

vars == <<pc, numpy_dtype, numpy_shape, fits_fmt, cards, parsed, idiobj, hduobj,
          ff, ffOpen, hdul_idi, ii, idx, calls, hdul, hdulist, eidx, provenance>>

fmtVars  == <<numpy_dtype, numpy_shape, fits_fmt>>
hdrVars  == <<cards, parsed, idiobj, hduobj>>
readVars == <<ff, ffOpen, hdul_idi, ii, idx, calls>>
expVars  == <<hdul, hdulist, eidx, provenance>>

-----------------------------------------------------------------------------
(* Bounds of the model *)

MaxRank == 2
MaxDim == 10
MaxItemsize == 11
MaxCards == 3
MaxEntries == 3
MaxLines == 2
MaxUnits == 3
MaxModelUnits == 2

-----------------------------------------------------------------------------
(* Python values *)

PyNone == [t |-> "None", v |-> <<>>]
PyStr(s) == [t |-> "str", v |-> s]

Digit(d) == CASE d = 0 -> "0" [] d = 1 -> "1" [] d = 2 -> "2" [] d = 3 -> "3"
              [] d = 4 -> "4" [] d = 5 -> "5" [] d = 6 -> "6" [] d = 7 -> "7"
              [] d = 8 -> "8" [] d = 9 -> "9"

RECURSIVE FmtNat(_)
FmtNat(n) == IF n < 10 THEN <<Digit(n)>> ELSE FmtNat(n \div 10) \o <<Digit(n % 10)>>

\* "%i" % n
FmtInt(n) == IF n < 0 THEN <<"-">> \o FmtNat(0 - n) ELSE FmtNat(n)

\* "%s" % x for a str or None
FmtStr(x) == IF x.t = "None" THEN <<"N", "o", "n", "e">> ELSE x.v

\* s[:n]
Prefix(s, n) == SubSeq(s, 1, IF Len(s) < n THEN Len(s) ELSE n)

\* s.endswith(suf)
EndsWith(s, suf) ==
    /\ Len(s) >= Len(suf)
    /\ SubSeq(s, Len(s) - Len(suf) + 1, Len(s)) = suf

RECURSIVE LStrip(_)
LStrip(s) == IF s # <<>> /\ Head(s) = " " THEN LStrip(Tail(s)) ELSE s

RECURSIVE RStrip(_)
RStrip(s) == IF s # <<>> /\ s[Len(s)] = " " THEN RStrip(SubSeq(s, 1, Len(s) - 1)) ELSE s

\* s.strip()
Strip(s) == RStrip(LStrip(s))

-----------------------------------------------------------------------------
(* fits_format_code_lookup *)

NumericTypes == {"uint8", "uint16", "uint32", "uint64", "int8", "int16", "int32",
                 "int64", "float16", "float32", "float64", "complex64",
                 "complex128", "bool_"}

\* numpy types the lookup table has no entry for
OtherTypes == {"object_", "unicode_", "datetime64", "void"}

ItemSize(t) == CASE t \in {"uint8", "int8", "bool_"} -> 1
                 [] t \in {"uint16", "int16", "float16"} -> 2
                 [] t \in {"uint32", "int32", "float32", "unicode_"} -> 4
                 [] t \in {"complex128", "void"} -> 16
                 [] OTHER -> 8

DTypes == [type : {"string_"}, itemsize : 1..MaxItemsize]
          \cup {[type |-> t, itemsize |-> ItemSize(t)] : t \in NumericTypes \cup OtherTypes}

RECURSIVE ShapesOfRank(_)
ShapesOfRank(r) == IF r = 0 THEN {<<>>}
                   ELSE {Append(s, d) : s \in ShapesOfRank(r - 1), d \in 0..MaxDim}

Shapes == UNION {ShapesOfRank(r) : r \in 0..MaxRank}

dtype_dict_get(np_type) ==
    CASE np_type = "uint8" -> PyStr(<<"B">>)
      [] np_type = "uint16" -> PyStr(<<"J">>)
      [] np_type = "uint32" -> PyStr(<<"K">>)
      [] np_type = "uint64" -> PyStr(<<"K">>)
      [] np_type = "int8" -> PyStr(<<"I">>)
      [] np_type = "int16" -> PyStr(<<"I">>)
      [] np_type = "int32" -> PyStr(<<"J">>)
      [] np_type = "int64" -> PyStr(<<"K">>)
      [] np_type = "float16" -> PyStr(<<"E">>)
      [] np_type = "float32" -> PyStr(<<"E">>)
      [] np_type = "float64" -> PyStr(<<"D">>)
      [] np_type = "complex64" -> PyStr(<<"C">>)
      [] np_type = "complex128" -> PyStr(<<"M">>)
      [] np_type = "bool_" -> PyStr(<<"L">>)
      [] OTHER -> PyNone

\* The outcome of a call: the value returned, exc the exception raised ("": none)
Returned(x) == [exc |-> "", ret |-> x]

\* fits_format_code_lookup taking the last axis of a one-dimensional shape too
fits_format_code_lookup_anyrank(dtype, shape) ==
    LET np_type == dtype.type
        fmt_len == IF Len(shape) > 0 THEN shape[Len(shape)] ELSE 1
    IN  IF np_type = "string_"
        THEN IF dtype.itemsize = 1
             THEN Returned(PyStr(<<"A">>))
             ELSE Returned(PyStr(FmtInt(dtype.itemsize) \o <<"A">>))
        ELSE LET fmt_code == dtype_dict_get(np_type)
             IN  IF fmt_len = 1
                 THEN Returned(fmt_code)
                 ELSE Returned(PyStr(FmtInt(fmt_len) \o FmtStr(fmt_code)))

fits_format_code_lookup(dtype, shape) ==
    LET np_type == dtype.type
        fmt_len == IF Len(shape) > 1 THEN shape[Len(shape)] ELSE 1
    IN  IF np_type = "string_"
        THEN IF dtype.itemsize = 1
             THEN Returned(PyStr(<<"A">>))
             ELSE Returned(PyStr(FmtInt(dtype.itemsize) \o <<"A">>))
        ELSE LET fmt_code == dtype_dict_get(np_type)
             IN  IF fmt_len = 1
                 THEN Returned(fmt_code)
                 ELSE Returned(PyStr(FmtInt(fmt_len) \o FmtStr(fmt_code)))

-----------------------------------------------------------------------------
(* Card names *)

K_HISTORY == <<"H", "I", "S", "T", "O", "R", "Y">>
K_COMMENT == <<"C", "O", "M", "M", "E", "N", "T">>
K_SIMPLE == <<"S", "I", "M", "P", "L", "E">>
K_XTENSION == <<"X", "T", "E", "N", "S", "I", "O", "N">>
K_BITPIX == <<"B", "I", "T", "P", "I", "X">>
K_PCOUNT == <<"P", "C", "O", "U", "N", "T">>
K_GCOUNT == <<"G", "C", "O", "U", "N", "T">>
K_GROUPS == <<"G", "R", "O", "U", "P", "S">>
K_EXTEND == <<"E", "X", "T", "E", "N", "D">>
K_TFIELDS == <<"T", "F", "I", "E", "L", "D", "S">>
K_EXTNAME == <<"E", "X", "T", "N", "A", "M", "E">>
K_NAXIS == <<"N", "A", "X", "I", "S">>
K_NAXIS1 == <<"N", "A", "X", "I", "S", "1">>
K_TUNIT1 == <<"T", "U", "N", "I", "T", "1">>
K_TFORM == <<"T", "F", "O", "R", "M">>
K_TTYPE == <<"T", "T", "Y", "P", "E">>
K_TDIM == <<"T", "D", "I", "M">>
K_TDIM1 == <<"T", "D", "I", "M", "1">>
K_OBSERVER == <<"O", "B", "S", "E", "R", "V", "E", "R">>
K_OBJECT == <<"O", "B", "J", "E", "C", "T">>
SUFFIX_COMMENT == <<"_", "C", "O", "M", "M", "E", "N", "T">>

restricted_header_keywords ==
    {K_XTENSION, K_BITPIX, K_SIMPLE, K_PCOUNT, K_GCOUNT, K_GROUPS, K_EXTEND,
     K_TFIELDS, K_EXTNAME}

restricted_table_keywords ==
    {<<"T", "D", "I", "S", "P">>, <<"T", "U", "N", "I", "T">>, K_TTYPE, K_TFORM,
     <<"T", "B", "C", "O", "L">>, <<"T", "N", "U", "L", "L">>,
     <<"T", "S", "C", "A", "L">>, <<"T", "Z", "E", "R", "O">>, K_NAXIS}

-----------------------------------------------------------------------------
(* Python dict (insertion-ordered): a sequence of [k, v] with distinct keys *)

DictKeys(d) == {d[i].k : i \in 1..Len(d)}
DictHas(d, key) == key \in DictKeys(d)
DictGet(d, key) == (CHOOSE i \in 1..Len(d) : d[i].k = key)
DictVal(d, key) == d[DictGet(d, key)].v

\* d[key] = value: an existing key keeps its place
DictSet(d, key, value) ==
    IF DictHas(d, key)
    THEN [d EXCEPT ![DictGet(d, key)] = [k |-> key, v |-> value]]
    ELSE Append(d, [k |-> key, v |-> value])

-----------------------------------------------------------------------------
(* The foreign header: a sequence of cards [key, val, comment] *)

Card(key, val, comment) == [key |-> key, val |-> val, comment |-> comment]

CardKeys(h) == {h[i].key : i \in 1..Len(h)}

LastIndexOf(h, key) == CHOOSE i \in 1..Len(h) :
                          /\ h[i].key = key
                          /\ \A j \in (i + 1)..Len(h) : h[j].key # key

InsertAt(h, i, c) == SubSeq(h, 1, i - 1) \o <<c>> \o SubSeq(h, i, Len(h))

\* header[key] = (value, comment): update the card in place, or append it
HeaderSet(h, key, val, comment) ==
    IF key \in CardKeys(h)
    THEN [h EXCEPT ![LastIndexOf(h, key)] = Card(key, val, comment)]
    ELSE Append(h, Card(key, val, comment))

\* header.add_history / header.add_comment: after the last card of that
\* keyword, at the bottom when there is none
AddCommentary(h, key, line) ==
    IF key \in CardKeys(h)
    THEN InsertAt(h, LastIndexOf(h, key) + 1, Card(key, line, ""))
    ELSE Append(h, Card(key, line, ""))

-----------------------------------------------------------------------------
(* write_headers *)

\* write_headers' table test without the TDIM prefix
is_table_key_no_tdim(key) ==
    \/ Prefix(key, 5) \in restricted_table_keywords
    \/ key = K_TFIELDS

is_table_key(key) ==
    \/ Prefix(key, 5) \in restricted_table_keywords
    \/ Prefix(key, 4) = K_TDIM
    \/ key = K_TFIELDS

RECURSIVE WriteEntries(_, _, _)
WriteEntries(h, header, i) ==
    IF i > Len(header) THEN h
    ELSE LET key == header[i].k
             value == header[i].v
             comment == IF DictHas(header, key \o SUFFIX_COMMENT)
                        THEN DictVal(header, key \o SUFFIX_COMMENT)
                        ELSE ""
             is_comment == EndsWith(key, SUFFIX_COMMENT)
             is_table == is_table_key(key)
             is_basic == key \in restricted_header_keywords
         IN  IF is_comment \/ is_table \/ is_basic
             THEN WriteEntries(h, header, i + 1)
             ELSE WriteEntries(HeaderSet(h, key, value, comment), header, i + 1)

RECURSIVE AddLines(_, _, _, _)
AddLines(h, key, lines, i) ==
    IF i > Len(lines) THEN h
    ELSE AddLines(AddCommentary(h, key, lines[i]), key, lines, i + 1)

\* hduobj.verify('fix') is the codec's repair pass; it leaves well-formed
\* cards as they are
write_headers(hdu, idi) ==
    LET h1 == WriteEntries(hdu.header, idi.header, 1)
        h2 == AddLines(h1, K_HISTORY, idi.history, 1)
        h3 == AddLines(h2, K_COMMENT, idi.comment, 1)
    IN  [hdu EXCEPT !.header = h3]

-----------------------------------------------------------------------------
(* parse_fits_header *)

RECURSIVE ParseCards(_, _, _)
ParseCards(cs, i, acc) ==
    IF i > Len(cs) THEN acc
    ELSE LET card_id == Strip(cs[i].key)
             card_val == cs[i].val
             card_comment == cs[i].comment
             comment_id == card_id \o SUFFIX_COMMENT
         IN  IF card_id \in {<<>>, <<" ">>}
             THEN ParseCards(cs, i + 1, acc)
             ELSE IF card_id \in restricted_header_keywords
             THEN ParseCards(cs, i + 1, acc)
             ELSE IF Prefix(card_id, 5) \in restricted_table_keywords
             THEN ParseCards(cs, i + 1, acc)
             ELSE IF card_id = K_HISTORY
             THEN ParseCards(cs, i + 1, [acc EXCEPT !.history = Append(@, card_val)])
             ELSE IF card_id = K_COMMENT
             THEN ParseCards(cs, i + 1, [acc EXCEPT !.comment = Append(@, card_val)])
             ELSE ParseCards(cs, i + 1,
                    [acc EXCEPT !.header =
                        DictSet(DictSet(@, card_id, card_val), comment_id, card_comment)])

\* The tuple the function returns: (header, comment, history)
parse_fits_header(cs) ==
    LET r == ParseCards(cs, 1, [header |-> <<>>, comment |-> <<>>, history |-> <<>>])
    IN  <<r.header, r.comment, r.history>>

-----------------------------------------------------------------------------
(* Foreign units as the codec builds them: pf.PrimaryHDU(), pf.ImageHDU(),  *)
(* pf.BinTableHDU.from_columns(...). Each starts with its structural cards. *)
(* src records which Container Model unit a unit was built from (0: none).  *)

N_PRIMARY == <<"P", "R", "I", "M", "A", "R", "Y">>

NewPrimaryHDU ==
    [kind |-> "PrimaryHDU", name |-> N_PRIMARY, data |-> "None", src |-> 0, columns |-> <<>>,
     header |-> <<Card(K_SIMPLE, "T", ""), Card(K_BITPIX, "8", ""),
                  Card(K_NAXIS, "0", ""), Card(K_EXTEND, "T", "")>>]

NewImageHDU ==
    [kind |-> "ImageHDU", name |-> <<>>, data |-> "None", src |-> 0, columns |-> <<>>,
     header |-> <<Card(K_XTENSION, "IMAGE", ""), Card(K_BITPIX, "8", ""),
                  Card(K_NAXIS, "0", ""), Card(K_PCOUNT, "0", ""),
                  Card(K_GCOUNT, "1", "")>>]

RECURSIVE ColumnCards(_, _)
ColumnCards(cols, i) ==
    IF i > Len(cols) THEN <<>>
    ELSE <<Card(K_TTYPE \o FmtInt(i), "column name", ""),
           Card(K_TFORM \o FmtInt(i), "column format", "")>> \o ColumnCards(cols, i + 1)

BinTableHDU_from_columns(cols) ==
    [kind |-> "BinTableHDU", name |-> <<>>, data |-> "None", src |-> 0, columns |-> cols,
     header |-> <<Card(K_XTENSION, "BINTABLE", ""), Card(K_BITPIX, "8", ""),
                  Card(K_NAXIS, "2", ""), Card(K_PCOUNT, "0", ""),
                  Card(K_GCOUNT, "1", ""), Card(K_TFIELDS, "n", "")>>
                 \o ColumnCards(cols, 1)]

\* hdu.name = name: the codec keeps the name in the EXTNAME card
SetName(hdu, name) ==
    [hdu EXCEPT !.name = name,
                !.header = HeaderSet(@, K_EXTNAME, "name", "extension name")]

-----------------------------------------------------------------------------
(* Values of the variables a specification does not use *)

NoUnit == [kind |-> "none", name |-> <<>>, data |-> "None", src |-> 0, columns |-> <<>>,
           header |-> <<>>]
NoIdi == [header |-> <<>>, history |-> <<>>, comment |-> <<>>]

FmtIdle ==
    /\ numpy_dtype = [type |-> "bool_", itemsize |-> 1]
    /\ numpy_shape = <<>>
    /\ fits_fmt = Returned(PyNone)

HdrIdle ==
    /\ cards = <<>>
    /\ parsed = <<<<>>, <<>>, <<>>>>
    /\ idiobj = NoIdi
    /\ hduobj = NoUnit

ReadIdle ==
    /\ ff = <<>>
    /\ ffOpen = FALSE
    /\ hdul_idi = <<>>
    /\ ii = 0
    /\ idx = 0
    /\ calls = <<>>

ExpIdle ==
    /\ hdul = <<>>
    /\ hdulist = <<>>
    /\ eidx = 0
    /\ provenance = 0

-----------------------------------------------------------------------------
(* SpecFmt: fits_format_code_lookup applied to every dtype and shape *)

InitFmt ==
    /\ pc = "call"
    /\ numpy_dtype \in DTypes
    /\ numpy_shape \in Shapes
    /\ fits_fmt = Returned(PyNone)
    /\ HdrIdle /\ ReadIdle /\ ExpIdle

Lookup ==
    /\ pc = "call"
    /\ fits_fmt' = fits_format_code_lookup(numpy_dtype, numpy_shape)
    /\ pc' = "done"
    /\ UNCHANGED <<numpy_dtype, numpy_shape, hdrVars, readVars, expVars>>

NextFmt == Lookup

SpecFmt == InitFmt /\ [][NextFmt]_vars

-----------------------------------------------------------------------------
(* Claims about fits_format_code_lookup *)

\* The reference table of the format codes
ReferenceCode(t) ==
    CASE t \in {"uint8"} -> "B"
      [] t \in {"int8", "int16"} -> "I"
      [] t \in {"uint16", "int32"} -> "J"
      [] t \in {"uint32", "int64", "uint64"} -> "K"
      [] t \in {"float16", "float32"} -> "E"
      [] t \in {"float64"} -> "D"
      [] t \in {"complex64"} -> "C"
      [] t \in {"complex128"} -> "M"
      [] t \in {"bool_"} -> "L"

DigitValue(c) == CHOOSE d \in 0..9 : Digit(d) = c

RECURSIVE NumeralValue(_)
NumeralValue(num) ==
    IF num = <<>> THEN 0
    ELSE 10 * NumeralValue(SubSeq(num, 1, Len(num) - 1)) + DigitValue(num[Len(num)])

\* num is the decimal numeral of n > 0
IsNumeralOf(num, n) ==
    /\ num # <<>>
    /\ \A i \in 1..Len(num) : \E d \in 0..9 : Digit(d) = num[i]
    /\ num[1] # "0"
    /\ NumeralValue(num) = n

\* code is "<n><c>"
IsRepeatCode(code, n, c) ==
    /\ Len(code) >= 2
    /\ code[Len(code)] = c
    /\ IsNumeralOf(SubSeq(code, 1, Len(code) - 1), n)

LastAxis(shape) == shape[Len(shape)]

\* C4: for fixed-width text the code is "A" when the byte length is 1 and "<n>A"
\* when it is n > 1; for a numeric or boolean type the code is the reference
\* table's letter, bare when the shape has at most one dimension or its last
\* axis has length 1, and "<n><letter>" when the shape has more than one
\* dimension and its last axis has length n > 1.
C4_TypeCodeTable ==
    pc = "done" /\ numpy_dtype.type \in NumericTypes \cup {"string_"} =>
        /\ fits_fmt.exc = ""
        /\ fits_fmt.ret.t = "str"
        /\ (numpy_dtype.type = "string_" /\ numpy_dtype.itemsize = 1)
             => fits_fmt.ret.v = <<"A">>
        /\ (numpy_dtype.type = "string_" /\ numpy_dtype.itemsize > 1)
             => IsRepeatCode(fits_fmt.ret.v, numpy_dtype.itemsize, "A")
        /\ (numpy_dtype.type \in NumericTypes
              /\ (Len(numpy_shape) <= 1 \/ LastAxis(numpy_shape) = 1))
             => fits_fmt.ret.v = <<ReferenceCode(numpy_dtype.type)>>
        /\ (numpy_dtype.type \in NumericTypes
              /\ Len(numpy_shape) > 1
              /\ LastAxis(numpy_shape) > 1)
             => IsRepeatCode(fits_fmt.ret.v, LastAxis(numpy_shape),
                             ReferenceCode(numpy_dtype.type))

\* float64 with shape (3, 5) has been encoded as 5D
C4_Witness ==
    /\ pc = "done"
    /\ numpy_dtype.type = "float64"
    /\ numpy_shape = <<3, 5>>
    /\ fits_fmt.ret.v = <<"5", "D">>

\* C5: an element type with no entry in the format-code table (and not
\* fixed-width text) makes the lookup fail with UnsupportedTypeError, for
\* every shape.
C5_UnsupportedTypeRaises ==
    pc = "done" /\ numpy_dtype.type \notin NumericTypes \cup {"string_"}
        => fits_fmt.exc = "UnsupportedTypeError"

-----------------------------------------------------------------------------
(* SpecParse: parse_fits_header applied to card lists *)

SeqsUpTo(S, n) == UNION {[1..k -> S] : k \in 0..n}

\* Cards of a source unit: user cards (one name twice, one name padded with
\* blanks), commentary cards, reserved cards, blank names
CardPool ==
    {Card(K_OBSERVER, "v1", "c1"), Card(K_OBSERVER, "v2", ""),
     Card(<<" ">> \o K_OBJECT \o <<" ">>, "v3", "c3"),
     Card(K_HISTORY, "h1", ""), Card(K_HISTORY, "h2", ""),
     Card(K_COMMENT, "k1", ""), Card(K_COMMENT, "k2", ""),
     Card(K_TDIM1, "(2,3)", ""), Card(K_TUNIT1, "m", ""),
     Card(K_NAXIS1, "4", ""), Card(K_BITPIX, "8", ""),
     Card(<<>>, "", ""), Card(<<" ">>, "", "")}

InitParse ==
    /\ pc = "call"
    /\ cards \in SeqsUpTo(CardPool, MaxCards)
    /\ parsed = <<<<>>, <<>>, <<>>>>
    /\ idiobj = NoIdi
    /\ hduobj = NoUnit
    /\ FmtIdle /\ ReadIdle /\ ExpIdle

ParseHeader ==
    /\ pc = "call"
    /\ parsed' = parse_fits_header(cards)
    /\ pc' = "done"
    /\ UNCHANGED <<cards, idiobj, hduobj, fmtVars, readVars, expVars>>

NextParse == ParseHeader

SpecParse == InitParse /\ [][NextParse]_vars

-----------------------------------------------------------------------------
(* Claims about parse_fits_header *)

ReservedStructural ==
    {K_XTENSION, K_BITPIX, K_SIMPLE, K_PCOUNT, K_GCOUNT, K_GROUPS, K_EXTEND,
     K_TFIELDS, K_EXTNAME}

ReservedPrefixes ==
    {<<"T", "D", "I", "S", "P">>, <<"T", "U", "N", "I", "T">>,
     <<"T", "T", "Y", "P", "E">>, <<"T", "F", "O", "R", "M">>,
     <<"T", "B", "C", "O", "L">>, <<"T", "N", "U", "L", "L">>,
     <<"T", "S", "C", "A", "L">>, <<"T", "Z", "E", "R", "O">>,
     <<"N", "A", "X", "I", "S">>}

\* The reserved-table-derived set: first 5 characters in the prefix set, or
\* prefix TDIM, or exactly TFIELDS
ReservedTableDerived(key) ==
    \/ \E q \in ReservedPrefixes :
          Len(key) >= Len(q) /\ \A i \in 1..Len(q) : key[i] = q[i]
    \/ (Len(key) >= 4 /\ <<key[1], key[2], key[3], key[4]>> = <<"T", "D", "I", "M">>)
    \/ key = K_TFIELDS

Reserved(key) == key \in ReservedStructural \/ ReservedTableDerived(key)

\* The name of a card without its surrounding blanks
Trimmed(key) ==
    IF \A i \in 1..Len(key) : key[i] = " " THEN <<>>
    ELSE LET a == CHOOSE i \in 1..Len(key) :
                     key[i] # " " /\ \A j \in 1..(i - 1) : key[j] = " "
             b == CHOOSE i \in 1..Len(key) :
                     key[i] # " " /\ \A j \in (i + 1)..Len(key) : key[j] = " "
         IN  [i \in 1..(b - a + 1) |-> key[a + i - 1]]

IsUserCard(c) ==
    /\ Trimmed(c.key) # <<>>
    /\ ~Reserved(Trimmed(c.key))
    /\ Trimmed(c.key) \notin {K_HISTORY, K_COMMENT}

\* The last card of cs that carries the name of card i
IsLastOfName(cs, i) ==
    \A j \in (i + 1)..Len(cs) : Trimmed(cs[j].key) # Trimmed(cs[i].key)

\* C2: after parse_fits_header the entries hold no key of the
\* reserved-structural set and no key of the reserved-table-derived set
\* (prefix set on the first 5 characters, prefix TDIM, exactly TFIELDS), and
\* they hold every user key K with entries[K] = the card's value and
\* entries[K_COMMENT] = the card's comment.
C2_ReservedFiltered ==
    pc = "done" =>
        LET entries == parsed[1]
        IN  /\ \A key \in DictKeys(entries) : ~Reserved(key)
            /\ \A i \in 1..Len(cards) :
                  (IsUserCard(cards[i]) /\ IsLastOfName(cards, i)) =>
                     LET K == Trimmed(cards[i].key)
                     IN  /\ DictHas(entries, K)
                         /\ DictVal(entries, K) = cards[i].val
                         /\ DictHas(entries, K \o SUFFIX_COMMENT)
                         /\ DictVal(entries, K \o SUFFIX_COMMENT) = cards[i].comment

\* What the code does keep out: the structural set and the 5-character
\* prefix set; the user keys are all there (used to cross-check the model)
ParseFiltersWithoutTDIM ==
    pc = "done" =>
        LET entries == parsed[1]
        IN  /\ \A key \in DictKeys(entries) :
                  \/ ~Reserved(key)
                  \/ (Len(key) >= 4 /\ Prefix(key, 4) = K_TDIM)
            /\ \A i \in 1..Len(cards) :
                  (IsUserCard(cards[i]) /\ IsLastOfName(cards, i)) =>
                     LET K == Trimmed(cards[i].key)
                     IN  /\ DictHas(entries, K)
                         /\ DictVal(entries, K) = cards[i].val
                         /\ DictVal(entries, K \o SUFFIX_COMMENT) = cards[i].comment

-----------------------------------------------------------------------------
(* SpecWrite: write_headers applied to Header Models and fresh units *)

\* Entries a Header Model may hold: user keys with and without a companion,
\* a companion whose key is absent, reserved keys of each sort
EntryPool ==
    {[k |-> K_OBSERVER, v |-> "v1"], [k |-> K_OBSERVER \o SUFFIX_COMMENT, v |-> "c1"],
     [k |-> K_OBJECT, v |-> "v2"], [k |-> K_TDIM1, v |-> "v3"],
     [k |-> K_TUNIT1, v |-> "v4"], [k |-> K_BITPIX, v |-> "v5"],
     [k |-> K_TFIELDS, v |-> "v6"]}

Dicts(n) == {d \in SeqsUpTo(EntryPool, n) :
                \A i, j \in 1..Len(d) : d[i].k = d[j].k => i = j}

IdiObjs == [header : Dicts(MaxEntries),
            history : SeqsUpTo({"h1", "h2"}, MaxLines),
            comment : SeqsUpTo({"k1", "k2"}, MaxLines)]

InitWrite ==
    /\ pc = "call"
    /\ idiobj \in IdiObjs
    /\ hduobj \in {NewPrimaryHDU, NewImageHDU}
    /\ cards = <<>>
    /\ parsed = <<<<>>, <<>>, <<>>>>
    /\ FmtIdle /\ ReadIdle /\ ExpIdle

WriteHeaders ==
    /\ pc = "call"
    /\ hduobj' = write_headers(hduobj, idiobj)
    /\ pc' = "done"
    /\ UNCHANGED <<idiobj, cards, parsed, fmtVars, readVars, expVars>>

NextWrite == WriteHeaders

SpecWrite == InitWrite /\ [][NextWrite]_vars

-----------------------------------------------------------------------------
(* Claims about write_headers *)

IsCompanion(key) ==
    /\ Len(key) >= 8
    /\ [i \in 1..8 |-> key[Len(key) - 8 + i]] = SUFFIX_COMMENT

IsWritten(e) == ~IsCompanion(e.k) /\ ~Reserved(e.k)

CompanionOf(entries, key) ==
    IF \E i \in 1..Len(entries) : entries[i].k = key \o SUFFIX_COMMENT
    THEN LET i == CHOOSE i \in 1..Len(entries) : entries[i].k = key \o SUFFIX_COMMENT
         IN  entries[i].v
    ELSE ""

ProjectedCards(entries) ==
    LET kept == SelectSeq(entries, IsWritten)
    IN  [i \in 1..Len(kept) |->
            [key |-> kept[i].k, val |-> kept[i].v,
             comment |-> CompanionOf(entries, kept[i].k)]]

CommentaryCards(key, lines) ==
    [i \in 1..Len(lines) |-> [key |-> key, val |-> lines[i], comment |-> ""]]

FreshHeader(kind) == IF kind = "PrimaryHDU" THEN NewPrimaryHDU.header
                     ELSE NewImageHDU.header

\* C10: write_headers writes exactly the keys K of entries that do not end
\* with _COMMENT and are in neither reserved set, each as (K, entries[K],
\* entries[K_COMMENT] or the empty string), in entries order; then the history
\* lines as history records in list order, then the comment lines as comment
\* records in list order. (The Header Model is an argument the call only reads.)
C10_HeaderProjection ==
    pc = "done" =>
        hduobj.header = FreshHeader(hduobj.kind)
                        \o ProjectedCards(idiobj.header)
                        \o CommentaryCards(K_HISTORY, idiobj.history)
                        \o CommentaryCards(K_COMMENT, idiobj.comment)

\* A Header Model with a user key, its companion, a TDIM key and a structural
\* key has been written, with two history lines, and one card came out
C10_Witness ==
    /\ pc = "done"
    /\ {K_OBSERVER, K_OBSERVER \o SUFFIX_COMMENT, K_TDIM1} \subseteq DictKeys(idiobj.header)
    /\ idiobj.history = <<"h2", "h1">>
    /\ idiobj.comment = <<"k1">>
    /\ \E i \in 1..Len(hduobj.header) :
          hduobj.header[i] = Card(K_OBSERVER, "v1", "c1")
    /\ K_TDIM1 \notin CardKeys(hduobj.header)

-----------------------------------------------------------------------------
(* The Container Model (idi.IdiHdulist): an insertion-ordered mapping from   *)
(* unit name to unit. A unit is [type, name, header, history, comment, data, *)
(* columns]; data is an array token or "None", columns a table's payload.    *)

IdiPrimaryHdu(name, header, history, comment) ==
    [type |-> "IdiPrimaryHdu", name |-> name, header |-> header,
     history |-> history, comment |-> comment, data |-> "None", columns |-> <<>>]

IdiImageHdu(name, data, header, history, comment) ==
    [type |-> "IdiImageHdu", name |-> name, header |-> header,
     history |-> history, comment |-> comment, data |-> data, columns |-> <<>>]

IdiTableHdu(name, columns, header, history, comment) ==
    [type |-> "IdiTableHdu", name |-> name, header |-> header,
     history |-> history, comment |-> comment, data |-> "None", columns |-> columns]

add_primary_hdu(c, name, header, history, comment) ==
    DictSet(c, name, IdiPrimaryHdu(name, header, history, comment))

add_image_hdu(c, name, data, header, history, comment) ==
    DictSet(c, name, IdiImageHdu(name, data, header, history, comment))

add_table_hdu(c, name, columns, header, history, comment) ==
    DictSet(c, name, IdiTableHdu(name, columns, header, history, comment))

-----------------------------------------------------------------------------
(* read_fits *)

N_HDU == <<"H", "D", "U">>
N_HDU0 == <<"H", "D", "U", "0">>
N_SCI == <<"S", "C", "I">>

\* A unit of the open document: name is hdul_fits.name (the loop assigns it),
\* fname the name the unit has in the file.
SourceUnit(fname, kind, size, is_image, header, data, columns) ==
    [name |-> fname, fname |-> fname, kind |-> kind, size |-> size,
     is_image |-> is_image, header |-> header, data |-> data, columns |-> columns]

\* Table.read(infile, hdu=name): the table of the first unit of the file that
\* has this name; fails when there is none or when it holds no table
TableRead(file, name) ==
    IF \E i \in 1..Len(file) : file[i].fname = name
    THEN LET i == CHOOSE i \in 1..Len(file) :
                     /\ file[i].fname = name
                     /\ \A j \in 1..(i - 1) : file[j].fname # name
         IN  IF file[i].kind = "BinTableHDU"
             THEN [exc |-> "", columns |-> file[i].columns]
             ELSE [exc |-> "ValueError", columns |-> <<>>]
    ELSE [exc |-> "KeyError", columns |-> <<>>]

\* Lines 208-210: a blank name becomes "HDU%i" % ii
IsBlankName(name) == name \in {<<>>, <<" ">>}
DefaultedName(unit, n) == IF IsBlankName(unit.name) THEN N_HDU \o FmtInt(n) ELSE unit.name
DefaultedCount(unit, n) == IF IsBlankName(unit.name) THEN n + 1 ELSE n

\* Line 212: header, history, comment = parse_fits_header(hdul_fits)
UnpackHeader(unit) ==
    LET r == parse_fits_header(unit.header)
    IN  [header |-> r[1], history |-> r[2], comment |-> r[3]]

\* What one loop iteration did: the add_* call made for source unit src
CallRecord(op, src, name, h, typeError) ==
    [op |-> op, src |-> src, name |-> name, header |-> h.header,
     history |-> h.history, comment |-> h.comment, typeError |-> typeError]

Open ==
    /\ pc = "call"
    /\ ffOpen' = TRUE
    /\ hdul_idi' = <<>>
    /\ ii' = 0
    /\ idx' = 1
    /\ pc' = "loop"
    /\ UNCHANGED <<ff, calls, fmtVars, hdrVars, expVars>>

\* The image branch without its test of hdul_fits.size
ImageBranchCall_nosize(unit, typeError) ==
    IF typeError THEN "add_primary_hdu"
    ELSE IF unit.is_image THEN "add_image_hdu"
    ELSE "add_table_hdu"

\* Lines 220-234: the call the image branch ends with
ImageBranchCall(unit, typeError) ==
    IF typeError THEN "add_primary_hdu"
    ELSE IF unit.size = 0 THEN "add_primary_hdu"
    ELSE IF unit.is_image THEN "add_image_hdu"
    ELSE "add_table_hdu"

\* The branch of lines 218-234: the unit is an ImageHDU or a PrimaryHDU.
\* typeError: some step inside the try raises TypeError.
ReadImageUnit ==
    /\ pc = "loop"
    /\ idx <= Len(ff)
    /\ ff[idx].kind \in {"ImageHDU", "PrimaryHDU"}
    /\ \E typeError \in BOOLEAN :
        LET name == DefaultedName(ff[idx], ii)
            h == UnpackHeader(ff[idx])
            op == ImageBranchCall(ff[idx], typeError)
        IN  /\ ff' = [ff EXCEPT ![idx].name = name]
            /\ ii' = DefaultedCount(ff[idx], ii)
            /\ hdul_idi' =
                 CASE op = "add_primary_hdu" ->
                        add_primary_hdu(hdul_idi, name, h.header, h.history, h.comment)
                   [] op = "add_image_hdu" ->
                        add_image_hdu(hdul_idi, name, ff[idx].data, h.header,
                                      h.history, h.comment)
                   [] op = "add_table_hdu" ->
                        add_table_hdu(hdul_idi, name, <<ff[idx].data>>, h.header,
                                      h.history, h.comment)
            /\ calls' = Append(calls, CallRecord(op, idx, name, h, typeError))
    /\ idx' = idx + 1
    /\ UNCHANGED <<pc, ffOpen, fmtVars, hdrVars, expVars>>

\* The branch of lines 236-239: a CompImageHDU. data[:] of a unit without
\* payload is the codec's business: it yields an array or raises TypeError,
\* which nothing catches here.
ReadCompImageUnit ==
    /\ pc = "loop"
    /\ idx <= Len(ff)
    /\ ff[idx].kind = "CompImageHDU"
    /\ LET name == DefaultedName(ff[idx], ii)
           h == UnpackHeader(ff[idx])
       IN  /\ ff' = [ff EXCEPT ![idx].name = name]
           /\ ii' = DefaultedCount(ff[idx], ii)
           /\ \/ /\ hdul_idi' = add_image_hdu(hdul_idi, name, ff[idx].data, h.header,
                                              h.history, h.comment)
                 /\ calls' = Append(calls, CallRecord("add_image_hdu", idx, name, h, FALSE))
                 /\ idx' = idx + 1
                 /\ pc' = pc
              \/ /\ ff[idx].size = 0
                 /\ pc' = "raised"
                 /\ UNCHANGED <<hdul_idi, calls, idx>>
    /\ UNCHANGED <<ffOpen, fmtVars, hdrVars, expVars>>

\* The branch of lines 240-246: any other unit is read as a table, by name
ReadTableUnit ==
    /\ pc = "loop"
    /\ idx <= Len(ff)
    /\ ff[idx].kind \notin {"ImageHDU", "PrimaryHDU", "CompImageHDU"}
    /\ LET name == DefaultedName(ff[idx], ii)
           h == UnpackHeader(ff[idx])
           tbl_data == TableRead(ff, name)
       IN  /\ ff' = [ff EXCEPT ![idx].name = name]
           /\ ii' = DefaultedCount(ff[idx], ii)
           /\ IF tbl_data.exc = ""
              THEN /\ hdul_idi' = add_table_hdu(hdul_idi, name, tbl_data.columns,
                                                h.header, h.history, h.comment)
                   /\ calls' = Append(calls, CallRecord("add_table_hdu", idx, name, h, FALSE))
                   /\ idx' = idx + 1
                   /\ pc' = pc
              ELSE /\ pc' = "raised"
                   /\ UNCHANGED <<hdul_idi, calls, idx>>
    /\ UNCHANGED <<ffOpen, fmtVars, hdrVars, expVars>>

\* Line 248
Return ==
    /\ pc = "loop"
    /\ idx > Len(ff)
    /\ pc' = "returned"
    /\ UNCHANGED <<readVars, fmtVars, hdrVars, expVars>>

-----------------------------------------------------------------------------
(* SpecRead: read_fits applied to documents as the codec opens them: a       *)
(* primary unit first, extension units after it                              *)

CardsA == <<Card(K_HISTORY, "h1", ""), Card(K_COMMENT, "k1", ""),
            Card(K_OBSERVER, "v1", "c1"), Card(K_HISTORY, "h2", ""),
            Card(K_BITPIX, "8", "")>>
CardsB == <<Card(K_COMMENT, "k2", ""), Card(K_TDIM1, "(2,3)", ""),
            Card(K_COMMENT, "k1", "")>>

SourceColumns == <<[name |-> "x", format |-> <<"D">>, unit |-> "m", array |-> "xs"]>>

PrimaryUnits ==
    {SourceUnit(N_PRIMARY, "PrimaryHDU", 0, TRUE, c, "None", <<>>) : c \in {CardsA, CardsB}}
    \cup {SourceUnit(N_PRIMARY, "PrimaryHDU", 1, TRUE, c, "img0", <<>>) : c \in {CardsA, CardsB}}
    \cup {SourceUnit(N_PRIMARY, "PrimaryHDU", 1, FALSE, c, "groups", <<>>) : c \in {CardsA, CardsB}}

ExtensionNames == {<<>>, <<" ">>, N_HDU0, N_SCI}

ExtensionUnits ==
    UNION {{SourceUnit(n, "ImageHDU", 0, TRUE, CardsA, "None", <<>>),
            SourceUnit(n, "ImageHDU", 1, TRUE, CardsB, "img", <<>>),
            SourceUnit(n, "CompImageHDU", 0, TRUE, CardsB, "None", <<>>),
            SourceUnit(n, "CompImageHDU", 1, TRUE, CardsA, "cimg", <<>>),
            SourceUnit(n, "BinTableHDU", 0, FALSE, CardsA, "None", <<>>),
            SourceUnit(n, "BinTableHDU", 1, FALSE, CardsB, "None", SourceColumns)}
           : n \in ExtensionNames}

Documents ==
    {d \in UNION {[1..k -> PrimaryUnits \cup ExtensionUnits] : k \in 1..MaxUnits} :
        /\ d[1] \in PrimaryUnits
        /\ \A i \in 2..Len(d) : d[i] \in ExtensionUnits}

InitRead ==
    /\ pc = "call"
    /\ ff \in Documents
    /\ ffOpen = FALSE
    /\ hdul_idi = <<>>
    /\ ii = 0
    /\ idx = 0
    /\ calls = <<>>
    /\ FmtIdle /\ HdrIdle /\ ExpIdle

NextRead ==
    \/ Open
    \/ ReadImageUnit
    \/ ReadCompImageUnit
    \/ ReadTableUnit
    \/ Return

SpecRead == InitRead /\ [][NextRead]_vars

-----------------------------------------------------------------------------
(* Claims about read_fits *)

IsHistoryCard(c) == c.key = K_HISTORY
IsCommentCard(c) == c.key = K_COMMENT
ValuesOf(cs) == [i \in 1..Len(cs) |-> cs[i].val]
HistoryValues(cs) == ValuesOf(SelectSeq(cs, IsHistoryCard))
CommentValues(cs) == ValuesOf(SelectSeq(cs, IsCommentCard))

\* Call i is the last one that inserted under its name
IsLastInsert(i) == \A j \in (i + 1)..Len(calls) : calls[j].name # calls[i].name

\* C3: for every unit read_fits inserts, the unit's history list is the
\* sequence of values of the source unit's HISTORY cards in card order, and
\* its comment list the sequence of values of its COMMENT cards in card order.
C3_HistoryCommentRouting ==
    \A i \in 1..Len(calls) :
        IsLastInsert(i) =>
            LET unit == DictVal(hdul_idi, calls[i].name)
                source == ff[calls[i].src]
            IN  /\ unit.history = HistoryValues(source.header)
                /\ unit.comment = CommentValues(source.header)

\* What the code does instead: the two lists change places (used to
\* cross-check the model)
ReadSwapsHistoryAndComment ==
    \A i \in 1..Len(calls) :
        IsLastInsert(i) =>
            LET unit == DictVal(hdul_idi, calls[i].name)
                source == ff[calls[i].src]
            IN  /\ unit.history = CommentValues(source.header)
                /\ unit.comment = HistoryValues(source.header)

BlankBefore(i) == Cardinality({j \in 1..(i - 1) : ff[j].fname \in {<<>>, <<" ">>}})

IsHDUName(name, k) ==
    /\ Len(name) > 3
    /\ <<name[1], name[2], name[3]>> = <<"H", "D", "U">>
    /\ LET num == [i \in 1..(Len(name) - 3) |-> name[i + 3]]
       IN  IF k = 0 THEN num = <<"0">> ELSE IsNumeralOf(num, k)

\* C6: after read_fits every unit name in the Container Model is non-empty,
\* no two source units have the same name, the Container Model holds one
\* entry per source unit, and a blank-named unit has the name HDU<k>, k the
\* zero-based count of blank-named units met before it.
C6_UnitNamesUnique ==
    pc = "returned" =>
        /\ \A e \in 1..Len(hdul_idi) : hdul_idi[e].k # <<>>
        /\ \A i, j \in 1..Len(ff) : ff[i].name = ff[j].name => i = j
        /\ Len(hdul_idi) = Len(ff)
        /\ \A i \in 1..Len(ff) :
              ff[i].fname \in {<<>>, <<" ">>} => IsHDUName(ff[i].name, BlankBefore(i))

\* The part of C6 the code does keep (used to cross-check the model)
ReadDefaultsBlankNames ==
    pc = "returned" =>
        /\ \A e \in 1..Len(hdul_idi) : hdul_idi[e].k # <<>>
        /\ \A i \in 1..Len(ff) :
              IF ff[i].fname \in {<<>>, <<" ">>}
              THEN IsHDUName(ff[i].name, BlankBefore(i))
              ELSE ff[i].name = ff[i].fname

CallsFor(i) == {c \in 1..Len(calls) : calls[c].src = i}

IsImageDeclared(unit) == unit.kind \in {"ImageHDU", "PrimaryHDU"}

\* The classification of C7: emptiness first, then the declared kind
ClassEmptinessFirst(unit) ==
    IF unit.size = 0 THEN "add_primary_hdu"
    ELSE IF IsImageDeclared(unit)
         THEN (IF unit.is_image THEN "add_image_hdu" ELSE "add_table_hdu")
    ELSE IF unit.kind = "CompImageHDU" THEN "add_image_hdu"
    ELSE "add_table_hdu"

\* C7: read_fits classifies every source unit exactly once: an empty unit is
\* Primary whatever its declared kind; otherwise a unit declared as image is
\* Image (or Table when its is-image check fails); otherwise a compressed
\* image is Image; otherwise it is Table. A document whose first unit is
\* empty yields a Container Model whose first entry is a Primary unit.
\* (Units whose conversion raised a TypeError that was caught are left out.)
C7_EmptinessFirst ==
    pc = "returned" =>
        /\ \A i \in 1..Len(ff) :
              /\ Cardinality(CallsFor(i)) = 1
              /\ \A c \in CallsFor(i) :
                    ~calls[c].typeError => calls[c].op = ClassEmptinessFirst(ff[i])
        /\ ff[1].size = 0 => hdul_idi[1].v.type = "IdiPrimaryHdu"

\* The classification the amended C7 states: the declared kind first
ClassKindFirst(unit, typeError) ==
    CASE IsImageDeclared(unit) ->
           (IF typeError \/ unit.size = 0 THEN "add_primary_hdu"
            ELSE IF unit.is_image THEN "add_image_hdu"
            ELSE "add_table_hdu")
      [] unit.kind = "CompImageHDU" -> "add_image_hdu"
      [] OTHER -> "add_table_hdu"

\* C7 amended: read_fits classifies every source unit it converts exactly
\* once and in source order, by the declared kind first: a unit declared image
\* or primary is Primary when it is empty or when a TypeError is caught while
\* it is converted, otherwise Image when its is-image check holds and Table
\* when it fails; a unit declared compressed image is Image, empty or not; any
\* other unit is Table, empty or not. When the call returns every unit has
\* been classified. When the first unit is declared image or primary and is
\* empty, the first entry inserted into the Container Model is a Primary unit.
C7_KindFirst ==
    /\ Len(calls) <= Len(ff)
    /\ \A c \in 1..Len(calls) :
          /\ calls[c].src = c
          /\ calls[c].op = ClassKindFirst(ff[c], calls[c].typeError)
    /\ pc = "returned" => Len(calls) = Len(ff)
    /\ (Len(calls) = 1 /\ IsImageDeclared(ff[1]) /\ ff[1].size = 0)
          => (Len(hdul_idi) = 1 /\ hdul_idi[1].v.type = "IdiPrimaryHdu")

\* A document with an empty primary unit, an empty table and an empty
\* compressed image has been imported: the table stayed a Table, the
\* compressed image an Image
C7_Witness ==
    /\ pc = "returned"
    /\ Len(ff) = 3
    /\ ff[1].size = 0 /\ calls[1].op = "add_primary_hdu" /\ ~calls[1].typeError
    /\ ff[2].kind = "BinTableHDU" /\ ff[2].size = 0 /\ calls[2].op = "add_table_hdu"
    /\ ff[3].kind = "CompImageHDU" /\ ff[3].size = 0 /\ calls[3].op = "add_image_hdu"

\* C8: on every exit path of read_fits (normal return, an exception raised
\* while a unit is converted) the document handle opened at the start of the
\* call has been released when the call ends.
C8_HandleReleased ==
    pc \in {"returned", "raised"} => ~ffOpen

-----------------------------------------------------------------------------
(* create_fits *)

\* unit_conversion.units_to_fits: recognized units go through a fixed table,
\* any other string passes through unchanged
units_to_fits(unit) ==
    CASE unit = "meter" -> "m"
      [] unit = "second" -> "s"
      [] OTHER -> unit

FormatLetters == {"L", "X", "B", "I", "J", "K", "A", "E", "D", "C", "M", "P", "Q"}

\* pf.Column accepts a format that is a letter of the format-code alphabet
\* with an optional repeat count before it
ColumnAcceptsFormat(fmt) ==
    /\ fmt.t = "str"
    /\ fmt.v # <<>>
    /\ fmt.v[Len(fmt.v)] \in FormatLetters
    /\ \A i \in 1..(Len(fmt.v) - 1) : \E d \in 0..9 : Digit(d) = fmt.v[i]

\* Lines 295-300: one column descriptor per column, in declared order
RECURSIVE FitsCols(_, _)
FitsCols(columns, i) ==
    IF i > Len(columns) THEN <<>>
    ELSE LET col == columns[i]
             fmt == fits_format_code_lookup(col.dtype, col.shape)
             fits_unit == units_to_fits(col.unit)
         IN  <<[name |-> col.name, format |-> fmt.ret, unit |-> fits_unit,
                array |-> col.data]>> \o FitsCols(columns, i + 1)

\* hdulist.insert(0, new_hdu) done as an append
InsertFront_append(list, hdu) == Append(list, hdu)

\* hdulist.insert(0, new_hdu)
InsertFront(list, hdu) == <<hdu>> \o list

ProvenanceLine == "File written by fits2hdf"

\* Lines 272-276
CreatePrimary ==
    /\ pc = "export"
    /\ eidx <= Len(hdul)
    /\ hdul[eidx].v.type = "IdiPrimaryHdu"
    /\ LET new_hdu == write_headers([NewPrimaryHDU EXCEPT !.src = eidx], hdul[eidx].v)
       IN  hdulist' = InsertFront(hdulist, new_hdu)
    /\ eidx' = eidx + 1
    /\ UNCHANGED <<pc, hdul, provenance, fmtVars, hdrVars, readVars>>

\* Lines 278-284
CreateImageAsPrimary ==
    /\ pc = "export"
    /\ eidx <= Len(hdul)
    /\ hdul[eidx].v.type = "IdiImageHdu"
    /\ hdul[eidx].k = N_PRIMARY
    /\ LET h == write_headers([NewPrimaryHDU EXCEPT !.src = eidx], hdul[eidx].v)
           new_hdu == [h EXCEPT !.data = hdul[eidx].v.data]
       IN  hdulist' = InsertFront(hdulist, new_hdu)
    /\ eidx' = eidx + 1
    /\ UNCHANGED <<pc, hdul, provenance, fmtVars, hdrVars, readVars>>

\* Lines 285-290
CreateImage ==
    /\ pc = "export"
    /\ eidx <= Len(hdul)
    /\ hdul[eidx].v.type = "IdiImageHdu"
    /\ hdul[eidx].k # N_PRIMARY
    /\ LET h == write_headers([NewImageHDU EXCEPT !.src = eidx], hdul[eidx].v)
           new_hdu == SetName([h EXCEPT !.data = hdul[eidx].v.data], hdul[eidx].k)
       IN  hdulist' = Append(hdulist, new_hdu)
    /\ eidx' = eidx + 1
    /\ UNCHANGED <<pc, hdul, provenance, fmtVars, hdrVars, readVars>>

\* Lines 292-308. (Line 292 lacks the colon that ends its elif; the branch is
\* modelled as its indentation and body show it.) pf.Column refuses a format
\* that is no format code, which ends the call.
CreateTable ==
    /\ pc = "export"
    /\ eidx <= Len(hdul)
    /\ hdul[eidx].v.type = "IdiTableHdu"
    /\ LET fits_cols == FitsCols(hdul[eidx].v.columns, 1)
       IN  IF \A i \in 1..Len(fits_cols) : ColumnAcceptsFormat(fits_cols[i].format)
           THEN LET t == [BinTableHDU_from_columns(fits_cols) EXCEPT !.src = eidx]
                    new_hdu == SetName(write_headers(t, hdul[eidx].v), hdul[eidx].k)
                IN  /\ hdulist' = Append(hdulist, new_hdu)
                    /\ eidx' = eidx + 1
                    /\ pc' = pc
           ELSE /\ pc' = "raised"
                /\ UNCHANGED <<hdulist, eidx>>
    /\ UNCHANGED <<hdul, provenance, fmtVars, hdrVars, readVars>>

\* Lines 311-315: hdulist[0] of an empty list raises IndexError
Finish ==
    /\ pc = "export"
    /\ eidx > Len(hdul)
    /\ IF hdulist = <<>>
       THEN /\ pc' = "raised"
            /\ UNCHANGED <<hdulist, provenance>>
       ELSE /\ hdulist' = [hdulist EXCEPT ![1].header =
                              AddCommentary(@, K_HISTORY, ProvenanceLine)]
            /\ provenance' = provenance + 1
            /\ pc' = "created"
    /\ UNCHANGED <<hdul, eidx, fmtVars, hdrVars, readVars>>

-----------------------------------------------------------------------------
(* SpecRT: create_fits applied to Container Models, then read_fits applied   *)
(* to the document it built (the codec writes and reopens it unit by unit)   *)

N_EVENTS == <<"E", "V", "E", "N", "T", "S">>
N_P2 == <<"P", "2">>
N_BAD == <<"B", "A", "D">>

HeaderA == <<[k |-> K_OBSERVER, v |-> "v1"], [k |-> K_OBSERVER \o SUFFIX_COMMENT, v |-> "c1"]>>
HeaderB == <<[k |-> K_OBJECT, v |-> "v2"], [k |-> K_OBJECT \o SUFFIX_COMMENT, v |-> ""]>>

Float64 == [type |-> "float64", itemsize |-> ItemSize("float64")]
Object == [type |-> "object_", itemsize |-> ItemSize("object_")]

ColumnsXY == <<[name |-> "x", dtype |-> Float64, shape |-> <<4>>, unit |-> "meter", data |-> "xs"],
               [name |-> "y", dtype |-> Float64, shape |-> <<4, 5>>, unit |-> "foo-bar", data |-> "ys"]>>
ColumnsObj == <<[name |-> "o", dtype |-> Object, shape |-> <<4>>, unit |-> "second", data |-> "os"]>>

ModelUnits ==
    {IdiPrimaryHdu(N_PRIMARY, HeaderA, <<"h1">>, <<"k1">>),
     IdiPrimaryHdu(N_P2, <<>>, <<>>, <<>>),
     IdiImageHdu(N_PRIMARY, "img0", HeaderB, <<>>, <<>>),
     IdiImageHdu(N_SCI, "img", HeaderA, <<"h1", "h2">>, <<>>),
     IdiTableHdu(N_EVENTS, ColumnsXY, HeaderB, <<>>, <<"k1", "k2">>),
     IdiTableHdu(N_BAD, ColumnsObj, <<>>, <<>>, <<>>)}

ContainerModels ==
    {[i \in 1..Len(us) |-> [k |-> us[i].name, v |-> us[i]]] :
        us \in {u \in SeqsUpTo(ModelUnits, MaxModelUnits) :
                  \A i, j \in 1..Len(u) : u[i].name = u[j].name => i = j}}

\* The unit the codec hands back for a unit it wrote
Reopened(hdu) ==
    SourceUnit(hdu.name, hdu.kind,
               IF hdu.data = "None" /\ hdu.columns = <<>> THEN 0 ELSE 1,
               hdu.kind # "BinTableHDU", hdu.header, hdu.data, hdu.columns)

InitRT ==
    /\ pc = "export"
    /\ hdul \in ContainerModels
    /\ hdulist = <<>>
    /\ eidx = 1
    /\ provenance = 0
    /\ FmtIdle /\ HdrIdle /\ ReadIdle

\* export_fits writes the document, read_fits is called on the file
WriteAndReopen ==
    /\ pc = "created"
    /\ ff' = [i \in 1..Len(hdulist) |-> Reopened(hdulist[i])]
    /\ pc' = "call"
    /\ UNCHANGED <<ffOpen, hdul_idi, ii, idx, calls, fmtVars, hdrVars, expVars>>

NextRT ==
    \/ CreatePrimary
    \/ CreateImageAsPrimary
    \/ CreateImage
    \/ CreateTable
    \/ Finish
    \/ WriteAndReopen
    \/ Open
    \/ ReadImageUnit
    \/ ReadTableUnit
    \/ Return

SpecRT == InitRT /\ [][NextRT]_vars

-----------------------------------------------------------------------------
(* Claims about create_fits *)

SourcesOf(k) == {i \in 1..Len(hdulist) : hdulist[i].src = k}

IsProvenanceCard(c) == c.key = K_HISTORY /\ c.val = ProvenanceLine

ProvenanceCount(hdu) ==
    Cardinality({i \in 1..Len(hdu.header) : IsProvenanceCard(hdu.header[i])})

\* The provenance line was appended once, to the unit at position 0, as the
\* last of its HISTORY cards
ProvenanceOnFirst ==
    /\ provenance = 1
    /\ hdulist # <<>>
    /\ ProvenanceCount(hdulist[1]) = 1
    /\ \A i \in 2..Len(hdulist) : ProvenanceCount(hdulist[i]) = 0
    /\ LET hist == SelectSeq(hdulist[1].header, IsHistoryCard)
       IN  IsProvenanceCard(hist[Len(hist)])

TakesPrimarySlot(unit) ==
    \/ unit.type = "IdiPrimaryHdu"
    \/ (unit.type = "IdiImageHdu" /\ unit.name = N_PRIMARY)

-----------------------------------------------------------------------------
(* The round trip *)

NotReserved(e) == ~Reserved(e.k)
UserEntries(header) == SelectSeq(header, NotReserved)

SameColumns(cols, fcols) ==
    /\ Len(cols) = Len(fcols)
    /\ \A i \in 1..Len(cols) :
          cols[i].name = fcols[i].name /\ cols[i].data = fcols[i].array

\* C1: importing the document produced by exporting a Container Model
\* reproduces the same unit names in the same order, the same header entries
\* (reserved keys left out), the same history list and the same comment list
\* for every unit, and the same array and table contents.
C1_RoundTrip ==
    pc = "returned" =>
        /\ Len(hdul_idi) = Len(hdul)
        /\ \A i \in 1..Len(hdul) :
              /\ i <= Len(hdul_idi)
              /\ hdul_idi[i].k = hdul[i].k
              /\ UserEntries(hdul_idi[i].v.header) = UserEntries(hdul[i].v.header)
              /\ hdul_idi[i].v.history = hdul[i].v.history
              /\ hdul_idi[i].v.comment = hdul[i].v.comment
              /\ hdul_idi[i].v.data = hdul[i].v.data
              /\ SameColumns(hdul[i].v.columns, hdul_idi[i].v.columns)

\* What does come back when the model has its primary-slot unit first, named
\* PRIMARY: names, order, entries and data; history and comment do not (used
\* to cross-check the model)
RoundTripKeepsNamesAndData ==
    (pc = "returned" /\ hdul[1].k = N_PRIMARY
        /\ \A i \in 2..Len(hdul) : ~TakesPrimarySlot(hdul[i].v)) =>
        /\ Len(hdul_idi) = Len(hdul)
        /\ \A i \in 1..Len(hdul) :
              /\ hdul_idi[i].k = hdul[i].k
              /\ UserEntries(hdul_idi[i].v.header) = UserEntries(hdul[i].v.header)
              /\ (~calls[i].typeError /\ hdul[i].v.type # "IdiTableHdu")
                    => hdul_idi[i].v.data = hdul[i].v.data
              /\ hdul[i].v.type = "IdiTableHdu"
                    => SameColumns(hdul[i].v.columns, hdul_idi[i].v.columns)

====
